---- MODULE Spec2Model ----
(***************************************************************************)
(* A model of the affordance-resolution and DOM-action pipeline:           *)
(*   - the Action Dispatch Guard of the chat widget (widget.tsx),          *)
(*   - the Affordance Collector (find-affordances.ts),                     *)
(*   - the Actor's waitForElement, type, clear, click, scrollToElement,    *)
(*     focus and blur (director/actor.ts),                                 *)
(*   - the Selector Matcher and the actor tool (selector-tool.ts),         *)
(*   - the intent tool (intent-tool.ts, lib/intent-config.ts).             *)
(* Each component has its own specification over the shared variables; the *)
(* variables of the other components stay at their initial values.         *)
(***************************************************************************)
EXTENDS Integers, Sequences, FiniteSets, TLC

VARIABLES
    \* ---- Dispatch Guard (widget.tsx) ----
    messages,          \* useChat's message list: Seq of [role, parts]
    streaming,         \* status === "streaming"
    dirty,             \* messages changed since the last render
    executingActions,  \* React state: Set<string> of action ids (as rendered)
    completedActions,  \* React state: Set<string> of action ids (as rendered)
    updates,           \* queued state updaters, applied by the next render
    ncalling,          \* per action id: Actor calls awaiting their promise
    ndelay,            \* per action id: calls in the 100ms post-completion delay
    calls,             \* per action id: number of Actor invocations so far
    threw,             \* per action id: an Actor call of it has thrown
    rejected           \* action ids whose executeActorAction promise rejected

guardVars == <<messages, streaming, dirty, executingActions, completedActions,
               updates, ncalling, ndelay, calls, threw, rejected>>

\* ---- Affordance Collector (find-affordances.ts) ----
VARIABLES
    doc,               \* the candidate elements (nodes) in document order
    content,           \* per node: the string ensureAffordanceId hashes
    idAttr,            \* per node: its data-umbrellamode-id attribute or NoId
    nextNode,          \* the next fresh node
    scanned,           \* collectAffordances has been called
    lastScan,          \* what the last collectAffordances call returned
    prevScan,          \* what the call before it returned, kept when the DOM
                       \* was not mutated between the two calls
    mutatedSince,      \* the DOM was mutated since the last call
    cleanPair,         \* no DOM mutation between the last two calls
    scanThrew          \* the last collectAffordances call threw

domVars == <<doc, content, idAttr, nextNode, scanned, lastScan, prevScan, mutatedSince,
             cleanPair, scanThrew>>

\* ---- Actor.waitForElement (director/actor.ts) ----
VARIABLES
    now,               \* the clock, in timer ticks
    matches,           \* document.querySelector(selector) finds an element
    promise,           \* "idle", "pending", "resolved" or "rejected"
    observer,          \* "none", "observing" or "disconnected"
    notified,          \* mutation records are queued for the observer
    timerArmed,        \* the setTimeout callback has not run yet
    startTime,         \* the time of the call
    timeout,           \* the timeout of the call
    existedAtCall,     \* the element existed when waitForElement was called
    everMatched        \* the selector has matched at some time since the call

waitVars == <<now, matches, promise, observer, notified, timerArmed, startTime,
              timeout, existedAtCall, everMatched>>

\* ---- Actor operations on one element (director/actor.ts) ----
VARIABLES
    elKind,            \* what the selector's element is
    elPresent,         \* the selector's element is in the document
    elValue,           \* its value (input, textarea) or textContent
    focused,           \* it is the document's active element
    op,                \* per call: what the Actor call is doing and has done
    opsStarted         \* number of Actor calls started so far

typeVars == <<elKind, elPresent, elValue, focused, op, opsStarted>>

\* ---- Selector Matcher (selector-tool.ts) ----
VARIABLES
    intent,            \* the target description
    action,            \* the intended action
    affordances,       \* the affordances parsed from affordancesContext
    result             \* what selectorTool.execute returned

matchVars == <<intent, action, affordances, result>>

\* ---- Actor tool and its dispatch (selector-tool.ts, widget.tsx) ----
VARIABLES
    toolIn,            \* the input the model gave to the actor tool
    toolOut,           \* what actorTool.execute returned (the part's output)
    toolPc,            \* "input", "planned" (output there), "dispatched"
    invoked            \* the Actor method calls made for that output

toolVars == <<toolIn, toolOut, toolPc, invoked>>

\* ---- Intent tool (intent-tool.ts, lib/intent-config.ts) ----
VARIABLES
    userRequest,       \* the user's request
    categoryHint,      \* the optional category argument
    intentConfig,      \* the configured intents (umbrellamode.json)
    intentOut          \* what intentTool.execute returned

intentVars == <<userRequest, categoryHint, intentConfig, intentOut>>

vars == <<guardVars, domVars, waitVars, typeVars, matchVars, toolVars,
          intentVars>>

notGuardVars == <<domVars, waitVars, typeVars, matchVars, toolVars, intentVars>>
notDomVars == <<guardVars, waitVars, typeVars, matchVars, toolVars, intentVars>>
notWaitVars == <<guardVars, domVars, typeVars, matchVars, toolVars, intentVars>>
notTypeVars == <<guardVars, domVars, waitVars, matchVars, toolVars, intentVars>>
notMatchVars == <<guardVars, domVars, waitVars, typeVars, toolVars, intentVars>>
notToolVars == <<guardVars, domVars, waitVars, typeVars, matchVars, intentVars>>
notIntentVars == <<guardVars, domVars, waitVars, typeVars, matchVars, toolVars>>

(***************************************************************************)
(* Generic helpers                                                         *)
(***************************************************************************)
Range(s) == {s[i] : i \in 1..Len(s)}

(***************************************************************************)
(* 1. ACTION DISPATCH GUARD                                                *)
(***************************************************************************)
MaxMsgs == 2
MaxParts == 2
MaxCalls == 2

\* What a message part can be, as far as the dispatch loop tells them apart:
\* a text part, a tool part whose output is executable, a tool part whose
\* output is not (success: false), a tool part whose output has not arrived.
PartKinds == {"text", "exec", "noexec", "nooutput"}

\* actionId = `${latestMessage.id}-${partIndex}`
ActionIds == (1..MaxMsgs) \X (1..MaxParts)

GuardInit ==
    /\ messages = <<>>
    /\ streaming = FALSE
    /\ dirty = FALSE
    /\ executingActions = {}
    /\ completedActions = {}
    /\ updates = <<>>
    /\ ncalling = [a \in ActionIds |-> 0]
    /\ ndelay = [a \in ActionIds |-> 0]
    /\ calls = [a \in ActionIds |-> 0]
    /\ threw = [a \in ActionIds |-> FALSE]
    /\ rejected = {}

\* One queued updater applied to the pair of sets.
ApplyUpdate(st, u) ==
    CASE u[1] = "addExecuting" -> [st EXCEPT !.executing = @ \cup {u[2]}]
      [] u[1] = "delExecuting" -> [st EXCEPT !.executing = @ \ {u[2]}]
      [] u[1] = "addCompleted" -> [st EXCEPT !.completed = @ \cup {u[2]}]

RECURSIVE ApplyUpdates(_, _)
ApplyUpdates(st, us) ==
    IF us = <<>> THEN st ELSE ApplyUpdates(ApplyUpdate(st, Head(us)), Tail(us))

\* The guard of executeActorAction: skip when the id is executing or completed.
AlreadyProcessed(id, executing, completed) ==
    id \in executing \/ id \in completed

\* The part indices of the latest message that the dispatch loop hands to
\* executeActorAction and that pass its guard, in part order.
RECURSIVE ToStart(_, _, _, _)
ToStart(msgs, p, executing, completed) ==
    IF msgs = <<>> \/ msgs[Len(msgs)].role # "assistant" THEN <<>>
    ELSE IF p > Len(msgs[Len(msgs)].parts) THEN <<>>
    ELSE LET id == <<Len(msgs), p>>
             rest == ToStart(msgs, p + 1, executing, completed)
         IN IF msgs[Len(msgs)].parts[p] = "exec"
               /\ ~AlreadyProcessed(id, executing, completed)
            THEN <<id>> \o rest
            ELSE rest

MarkExecuting(ids) == [i \in 1..Len(ids) |-> <<"addExecuting", ids[i]>>]

\* The user submits a prompt (the input is disabled while streaming or while
\* the executing set is non-empty).
SendMessage ==
    /\ ~streaming
    /\ executingActions = {}
    /\ Len(messages) < MaxMsgs
    /\ messages' = Append(messages, [role |-> "user", parts |-> <<"text">>])
    /\ streaming' = TRUE
    /\ dirty' = TRUE
    /\ UNCHANGED <<executingActions, completedActions, updates, ncalling,
                   ndelay, calls, threw>>
    /\ UNCHANGED <<rejected, notGuardVars>>

\* A chunk of the assistant's answer arrives: a new assistant message, or one
\* more part of the latest assistant message.
StreamPart(k) ==
    /\ streaming
    /\ messages # <<>>
    /\ LET n == Len(messages) IN
         IF messages[n].role = "user"
         THEN /\ n < MaxMsgs
              /\ messages' = Append(messages,
                                    [role |-> "assistant", parts |-> <<k>>])
         ELSE /\ Len(messages[n].parts) < MaxParts
              /\ messages' = [messages EXCEPT ![n].parts = Append(@, k)]
    /\ dirty' = TRUE
    /\ UNCHANGED <<streaming, executingActions, completedActions, updates,
                   ncalling, ndelay, calls, threw>>
    /\ UNCHANGED <<rejected, notGuardVars>>

\* The output of a tool part arrives.
ToolOutput(p, k) ==
    /\ streaming
    /\ messages # <<>>
    /\ messages[Len(messages)].role = "assistant"
    /\ p \in 1..Len(messages[Len(messages)].parts)
    /\ messages[Len(messages)].parts[p] = "nooutput"
    /\ messages' = [messages EXCEPT ![Len(messages)].parts[p] = k]
    /\ dirty' = TRUE
    /\ UNCHANGED <<streaming, executingActions, completedActions, updates,
                   ncalling, ndelay, calls, threw>>
    /\ UNCHANGED <<rejected, notGuardVars>>

StreamEnd ==
    /\ streaming
    /\ messages # <<>>
    /\ messages[Len(messages)].role = "assistant"
    /\ streaming' = FALSE
    /\ UNCHANGED <<messages, dirty, executingActions, completedActions,
                   updates, ncalling, ndelay, calls, threw>>
    /\ UNCHANGED <<rejected, notGuardVars>>

\* A render commits the queued updaters, and because one of the effect's
\* dependencies [messages, executingActions, completedActions] changed, the
\* effect runs: every executable part of the latest assistant message is
\* handed to executeActorAction, none of them awaited.
Render ==
    /\ dirty \/ updates # <<>>
    /\ LET st == ApplyUpdates([executing |-> executingActions,
                               completed |-> completedActions], updates)
           ids == ToStart(messages, 1, st.executing, st.completed)
       IN /\ \A i \in 1..Len(ids) : calls[ids[i]] < MaxCalls
          /\ executingActions' = st.executing
          /\ completedActions' = st.completed
          /\ updates' = MarkExecuting(ids)
          /\ ncalling' = [a \in ActionIds |->
                            IF a \in Range(ids) THEN ncalling[a] + 1
                            ELSE ncalling[a]]
          /\ calls' = [a \in ActionIds |->
                            IF a \in Range(ids) THEN calls[a] + 1 ELSE calls[a]]
    /\ dirty' = FALSE
    /\ UNCHANGED <<messages, streaming, ndelay, threw>>
    /\ UNCHANGED <<rejected, notGuardVars>>

\* What executeActorAction queues when the awaited Actor call returns: the id
\* is marked completed, and the function goes on to its 100ms delay.
OnSuccess(id) == <<<<"addCompleted", id>>>>

\* What executeActorAction queues when the awaited Actor call throws: the catch
\* block only logs, the finally block removes the id from the executing set.
OnFailureNoFinally(id) == <<>>

OnFailure(id) == <<<<"delExecuting", id>>>>

\* The catch block logs the error and swallows it: the promise executeActorAction
\* returned, which nothing awaits, does not reject.
AfterCatchRethrown(id, rej) == rej \cup {id}

AfterCatch(id, rej) == rej

\* What the finally block queues after the 100ms delay.
OnFinally(id) == <<<<"delExecuting", id>>>>

ActorReturns(id) ==
    /\ ncalling[id] > 0
    /\ ncalling' = [ncalling EXCEPT ![id] = @ - 1]
    /\ ndelay' = [ndelay EXCEPT ![id] = @ + 1]
    /\ updates' = updates \o OnSuccess(id)
    /\ UNCHANGED <<messages, streaming, dirty, executingActions,
                   completedActions, calls, threw>>
    /\ UNCHANGED <<rejected, notGuardVars>>

ActorThrows(id) ==
    /\ ncalling[id] > 0
    /\ ncalling' = [ncalling EXCEPT ![id] = @ - 1]
    /\ threw' = [threw EXCEPT ![id] = TRUE]
    /\ updates' = updates \o OnFailure(id)
    /\ rejected' = AfterCatch(id, rejected)
    /\ UNCHANGED <<messages, streaming, dirty, executingActions,
                   completedActions, ndelay, calls>>
    /\ UNCHANGED notGuardVars

DelayElapsed(id) ==
    /\ ndelay[id] > 0
    /\ ndelay' = [ndelay EXCEPT ![id] = @ - 1]
    /\ updates' = updates \o OnFinally(id)
    /\ UNCHANGED <<messages, streaming, dirty, executingActions,
                   completedActions, ncalling, calls, threw>>
    /\ UNCHANGED <<rejected, notGuardVars>>

GuardNext ==
    \/ SendMessage
    \/ \E k \in PartKinds : StreamPart(k)
    \/ \E p \in 1..MaxParts, k \in {"exec", "noexec"} : ToolOutput(p, k)
    \/ StreamEnd
    \/ Render
    \/ \E id \in ActionIds : ActorReturns(id)
    \/ \E id \in ActionIds : ActorThrows(id)
    \/ \E id \in ActionIds : DelayElapsed(id)

(***************************************************************************)
(* 2. AFFORDANCE COLLECTOR                                                 *)
(***************************************************************************)
MaxNodes == 3
DefaultMax == 400

NoId == <<>>

\* The max arguments collectAffordances is called with.
MaxCounts == {0, 1, DefaultMax}
Nodes == 1..MaxNodes

\* Character codes of the strings the model's elements are made of.
Bar == 124
Quote == 34
TagButton == <<66, 85, 84, 84, 79, 78>>
TagAnchor == <<65>>
TextAa == <<65, 97>>
TextBB == <<66, 66>>

\* The candidate elements the page may insert: tagName, id, name, aria-label,
\* textContent and className, the six strings ensureAffordanceId joins.
Contents ==
    { [tagName |-> TagButton, id |-> <<>>, name |-> <<>>, aria |-> <<>>,
       text |-> TextAa, className |-> <<>>],
      [tagName |-> TagButton, id |-> <<>>, name |-> <<>>, aria |-> <<>>,
       text |-> TextBB, className |-> <<>>],
      [tagName |-> TagAnchor, id |-> <<>>, name |-> <<>>, aria |-> <<>>,
       text |-> TextAa, className |-> <<>>],
      [tagName |-> TagAnchor, id |-> <<Quote>>, name |-> <<>>, aria |-> <<>>,
       text |-> TextAa, className |-> <<>>] }

NoContent == [tagName |-> <<>>, id |-> <<>>, name |-> <<>>, aria |-> <<>>,
              text |-> <<>>, className |-> <<>>]

Slice(s, n) == SubSeq(s, 1, IF Len(s) < n THEN Len(s) ELSE n)

\* [tagName, id, name, aria-label, textContent.slice(0, 64), className].join("|")
HashInput(c) ==
    c.tagName \o <<Bar>> \o c.id \o <<Bar>> \o c.name \o <<Bar>> \o c.aria
       \o <<Bar>> \o Slice(c.text, 64) \o <<Bar>> \o c.className

\* hash = (hash << 5) - hash + charCode; hash |= 0, on a 32-bit integer kept
\* as its two 16-bit halves <<high, low>>.
HashStep(h, code) ==
    LET t == 31 * h[2] + code
    IN <<(31 * h[1] + (t \div 65536)) % 65536, t % 65536>>

RECURSIVE HashLoop(_, _, _)
HashLoop(h, input, i) ==
    IF i > Len(input) THEN h ELSE HashLoop(HashStep(h, input[i]), input, i + 1)

\* Math.abs of the signed 32-bit value, again as two 16-bit halves (the base-36
\* rendering that follows is one-to-one, so the halves stand for the string).
AbsHalves(h) ==
    IF h[1] < 32768 THEN h
    ELSE <<(65536 - h[1] - (IF h[2] = 0 THEN 0 ELSE 1)) % 65536,
           (65536 - h[2]) % 65536>>

hashString(input) == AbsHalves(HashLoop(<<0, 0>>, input, 1))

\* An identity is the base string, or `${base}-${counter}`: <<base, counter>>,
\* counter 0 standing for the bare base.
RECURSIVE NextCandidate(_, _, _, _)
NextCandidate(base, candidate, counter, seenIds) ==
    IF candidate \in seenIds
    THEN NextCandidate(base, <<base, counter>>, counter + 1, seenIds)
    ELSE candidate

\* ensureAffordanceId(el): the id returned, the attributes and seenIds after.
EnsureAffordanceIdOverwrite(n, attrs, seenIds) ==
    LET candidate == NextCandidate(hashString(HashInput(content[n])),
                                   <<hashString(HashInput(content[n])), 0>>,
                                   1, seenIds)
    IN [id |-> candidate,
        attrs |-> [attrs EXCEPT ![n] = candidate],
        seenIds |-> seenIds \cup {candidate}]

ensureAffordanceId(n, attrs, seenIds) ==
    IF attrs[n] # NoId
    THEN [id |-> attrs[n], attrs |-> attrs, seenIds |-> seenIds \cup {attrs[n]}]
    ELSE LET base == hashString(HashInput(content[n]))
             candidate == NextCandidate(base, <<base, 0>>, 1, seenIds)
         IN [id |-> candidate,
             attrs |-> [attrs EXCEPT ![n] = candidate],
             seenIds |-> seenIds \cup {candidate}]

\* selector: `[${DATA_ATTR}="${affordanceId}"]`
Selector(id) == <<"data-umbrellamode-id", id>>

\* document.querySelector of an attribute selector: the first element in
\* document order that carries the value, or 0 when there is none.
QuerySelector(d, attrs, sel) ==
    LET hits == {i \in 1..Len(d) : attrs[d[i]] = sel[2]}
    IN IF hits = {} THEN 0
       ELSE d[CHOOSE i \in hits : \A j \in hits : i <= j]

\* accName(el): without an aria label, an element with an id is looked up
\* with document.querySelector(`label[for="${el.id}"]`), which throws a
\* SyntaxError when the id holds a quotation mark.
AccNameThrows(c) == c.aria = <<>> /\ Quote \in Range(c.id)

\* The scan loop: for (const el of els) { ...push...; if (length >= max) break }
\* An exception thrown while the element's affordance is built leaves the
\* function; the element's identity attribute is set by then.
RECURSIVE ScanLoop(_, _, _, _, _)
ScanLoop(i, attrs, seenIds, items, max) ==
    IF i > Len(doc) THEN [attrs |-> attrs, items |-> items, threw |-> FALSE]
    ELSE LET r == ensureAffordanceId(doc[i], attrs, seenIds)
             pushed == Append(items, [node |-> doc[i], id |-> r.id,
                                      selector |-> Selector(r.id)])
         IN IF AccNameThrows(content[doc[i]])
            THEN [attrs |-> r.attrs, items |-> <<>>, threw |-> TRUE]
            ELSE IF Len(pushed) >= max
            THEN [attrs |-> r.attrs, items |-> pushed, threw |-> FALSE]
            ELSE ScanLoop(i + 1, r.attrs, r.seenIds, pushed, max)

DomInit ==
    /\ doc = <<>>
    /\ content = [n \in Nodes |-> NoContent]
    /\ idAttr = [n \in Nodes |-> NoId]
    /\ nextNode = 1
    /\ scanned = FALSE
    /\ lastScan = <<>>
    /\ prevScan = <<>>
    /\ mutatedSince = FALSE
    /\ cleanPair = FALSE
    /\ scanThrew = FALSE

InsertAt(d, pos, n) == SubSeq(d, 1, pos) \o <<n>> \o SubSeq(d, pos + 1, Len(d))
RemoveAt(d, i) == SubSeq(d, 1, i - 1) \o SubSeq(d, i + 1, Len(d))

\* The page inserts a fresh candidate element after the first pos elements.
InsertElement(pos, c) ==
    /\ nextNode <= MaxNodes
    /\ pos \in 0..Len(doc)
    /\ doc' = InsertAt(doc, pos, nextNode)
    /\ content' = [content EXCEPT ![nextNode] = c]
    /\ nextNode' = nextNode + 1
    /\ mutatedSince' = TRUE
    /\ UNCHANGED <<idAttr, scanned, lastScan, prevScan, cleanPair, scanThrew>>
    /\ UNCHANGED notDomVars

\* The page removes (destroys) the i-th candidate element.
RemoveElement(i) ==
    /\ i \in 1..Len(doc)
    /\ doc' = RemoveAt(doc, i)
    /\ idAttr' = [idAttr EXCEPT ![doc[i]] = NoId]
    /\ content' = [content EXCEPT ![doc[i]] = NoContent]
    /\ mutatedSince' = TRUE
    /\ UNCHANGED <<nextNode, scanned, lastScan, prevScan, cleanPair,
                   scanThrew>>
    /\ UNCHANGED notDomVars

\* collectAffordances(max)
CollectAffordances(max) ==
    /\ LET r == ScanLoop(1, idAttr, {}, <<>>, max)
       IN /\ idAttr' = r.attrs
          /\ lastScan' = r.items
          /\ scanThrew' = r.threw
    /\ prevScan' = IF scanned /\ ~mutatedSince THEN lastScan ELSE <<>>
    /\ cleanPair' = (scanned /\ ~mutatedSince)
    /\ scanned' = TRUE
    /\ mutatedSince' = FALSE
    /\ UNCHANGED <<doc, content, nextNode>>
    /\ UNCHANGED notDomVars

DomNext ==
    \/ \E pos \in 0..MaxNodes, c \in Contents : InsertElement(pos, c)
    \/ \E i \in Nodes : RemoveElement(i)
    \/ \E max \in MaxCounts : CollectAffordances(max)

(***************************************************************************)
(* 3. ACTOR: waitForElement                                                *)
(***************************************************************************)
MaxTime == 4
MaxTimeout == 2

WaitInit ==
    /\ now = 0
    /\ matches = FALSE
    /\ promise = "idle"
    /\ observer = "none"
    /\ notified = FALSE
    /\ timerArmed = FALSE
    /\ startTime = 0
    /\ timeout = 0
    /\ existedAtCall = FALSE
    /\ everMatched = FALSE

\* resolve(element) / reject(error): a settled promise stays as it is.
SettleAgain(p, outcome) == outcome

Settle(p, outcome) == IF p = "pending" THEN outcome ELSE p

\* The observer after its callback found the element: observer.disconnect().
ObserverAfterMatchLeaked == "observing"

ObserverAfterMatch == "disconnected"

\* setTimeout(callback, timeout): the callback may run once timeout has elapsed.
TimerDueAtOnce(t, start, tmo) == TRUE

TimerDue(t, start, tmo) == t >= start + tmo

\* waitForElement(selector, timeout): the promise executor.
WaitForElement(tmo) ==
    /\ promise = "idle"
    /\ now + tmo <= MaxTime
    /\ existedAtCall' = matches
    /\ everMatched' = matches
    /\ startTime' = now
    /\ timeout' = tmo
    /\ IF matches
       THEN /\ promise' = "resolved"
            /\ UNCHANGED <<observer, timerArmed>>
       ELSE /\ promise' = "pending"
            /\ observer' = "observing"
            /\ timerArmed' = TRUE
    /\ UNCHANGED <<now, matches, notified>>
    /\ UNCHANGED notWaitVars

\* The page adds or removes nodes under document.body (a childList mutation);
\* afterwards the selector matches or not. A connected observer is notified.
ChildListMutation(m) ==
    /\ matches' = m
    /\ everMatched' = (everMatched \/ (promise # "idle" /\ m))
    /\ notified' = (notified \/ observer = "observing")
    /\ UNCHANGED <<now, promise, observer, timerArmed, startTime, timeout,
                   existedAtCall>>
    /\ UNCHANGED notWaitVars

\* The page changes an attribute of an existing element so that the selector
\* starts or stops matching: the observer watches childList and subtree only,
\* so no record is queued.
AttributeMutation(m) ==
    /\ matches # m
    /\ matches' = m
    /\ everMatched' = (everMatched \/ (promise # "idle" /\ m))
    /\ UNCHANGED <<now, promise, observer, notified, timerArmed, startTime,
                   timeout, existedAtCall>>
    /\ UNCHANGED notWaitVars

\* The MutationObserver callback.
ObserverCallback ==
    /\ notified
    /\ observer = "observing"
    /\ notified' = FALSE
    /\ IF matches
       THEN /\ observer' = ObserverAfterMatch
            /\ promise' = Settle(promise, "resolved")
       ELSE UNCHANGED <<observer, promise>>
    /\ UNCHANGED <<now, matches, timerArmed, startTime, timeout,
                   existedAtCall, everMatched>>
    /\ UNCHANGED notWaitVars

\* The setTimeout callback: observer.disconnect(); reject(...).
TimerFires ==
    /\ timerArmed
    /\ TimerDue(now, startTime, timeout)
    /\ ~notified   \* a queued observer callback is a microtask: it runs first
    /\ timerArmed' = FALSE
    /\ observer' = "disconnected"
    /\ notified' = FALSE
    /\ promise' = Settle(promise, "rejected")
    /\ UNCHANGED <<now, matches, startTime, timeout, existedAtCall,
                   everMatched>>
    /\ UNCHANGED notWaitVars

Tick ==
    /\ now < MaxTime
    /\ now' = now + 1
    /\ UNCHANGED <<matches, promise, observer, notified, timerArmed,
                   startTime, timeout, existedAtCall, everMatched>>
    /\ UNCHANGED notWaitVars

WaitNext ==
    \/ \E tmo \in 1..MaxTimeout : WaitForElement(tmo)
    \/ \E m \in BOOLEAN : ChildListMutation(m)
    \/ \E m \in BOOLEAN : AttributeMutation(m)
    \/ ObserverCallback
    \/ TimerFires
    \/ Tick

(***************************************************************************)
(* 4. ACTOR: type, typeFast, clear, click, scrollToElement, focus, blur    *)
(***************************************************************************)
MaxOps == 2
MaxText == 2

\* The calls of a behaviour, in the order they are made.
Slots == 1..MaxOps

\* The element kinds the Actor tells apart with instanceof / contentEditable.
ElementKinds == {"input", "textarea", "contenteditable", "other"}
FormControls == {"input", "textarea"}

\* Texts to type: texts of distinct characters up to MaxText characters, and
\* a text that repeats a character.
Alphabet == <<"a", "b", "c", "d", "e", "f">>
Texts ==
    {SubSeq(Alphabet, 1, n) : n \in 1..MaxText} \cup {<<"a", "a">>}

\* Values the element may hold before the first call.
InitialValues == {<<>>, <<"x">>}

NoOp == [name |-> "none", pc |-> "free", text |-> <<>>, sim |-> FALSE,
         i |-> 0, prior |-> <<>>, disturbed |-> FALSE, emitted |-> <<>>,
         final |-> <<>>, error |-> "", block |-> "", focusedAfter |-> FALSE]

TypeIdle ==
    /\ elKind = "input"
    /\ elPresent = TRUE
    /\ elValue = <<>>
    /\ focused = FALSE
    /\ op = [s \in Slots |-> NoOp]
    /\ opsStarted = 0

TypeInit ==
    /\ elKind \in ElementKinds
    /\ elPresent = TRUE
    /\ elValue \in InitialValues
    /\ focused = FALSE
    /\ op = [s \in Slots |-> NoOp]
    /\ opsStarted = 0

\* Every call in flight other than s has seen the element change under it.
Disturb(ops, s) ==
    [t \in Slots |->
        IF t # s /\ ops[t].pc = "waiting"
        THEN [ops[t] EXCEPT !.disturbed = TRUE] ELSE ops[t]]

\* An event dispatched on the element, with the element's value at that time.
Event(type, v) == <<type, v>>

\* Simulated typing into a form control first clears the existing content.
SimClearedKept(v) == v

SimCleared(v) == <<>>

\* The events clear() dispatches on an element of the kind.
ClearEventsNoChange(kind, v) == <<Event("input", v)>>

ClearEvents(kind, v) ==
    IF kind \in FormControls
    THEN <<Event("input", v), Event("change", v)>>
    ELSE <<Event("input", v)>>

\* The events instant typing dispatches on an element of the kind.
FastEvents(kind, v) ==
    IF kind \in FormControls
    THEN <<Event("input", v), Event("change", v)>>
    ELSE <<Event("input", v)>>

\* The events that end simulated typing, after the loop.
SimEndEvents(kind, v) ==
    IF kind \in FormControls THEN <<Event("change", v)>> ELSE <<>>

\* One turn of the simulated loop: the character is appended to whatever the
\* element holds at that time (newValue = element.value + char).
NewValueOwnPrefix(currentValue, text, i) == SubSeq(text, 1, i)

NewValue(currentValue, text, i) == currentValue \o <<text[i]>>

Started(name, text, sim) ==
    [NoOp EXCEPT !.name = name, !.text = text, !.sim = sim, !.prior = elValue]

\* The next call made is call number opsStarted + 1.
FreeSlot(s) == s = opsStarted + 1

\* The element is located and is one the operation supports.
Locatable == elPresent /\ elKind # "other"

\* element.focus() makes a focusable element the active element; the kind
\* "other" stands for an element that takes no focus (a div, a span).
Focusable(kind) == kind # "other"

\* The call found no element: throw new Error(`Element not found with
\* selector: ${selector}`). Otherwise a type or clear call that throws found
\* an element it cannot type into.
LocateFailureSwallowed(o) == [o EXCEPT !.pc = "done"]

LocateFailure(o) ==
    [o EXCEPT !.pc = "threw",
              !.error = IF elPresent THEN "unsupported" ELSE "notFound"]

\* type(selector, text, simulateTyping) up to its first await: locate, focus,
\* then either the whole instant mode, or the clearing and the first character
\* of simulated mode.
Type(s, text, sim) ==
    /\ FreeSlot(s)
    /\ opsStarted' = opsStarted + 1
    /\ IF ~Locatable
       THEN /\ op' = [op EXCEPT ![s] =
                         LocateFailure(Started("type", text, sim))]
            /\ UNCHANGED <<elValue, focused>>
       ELSE IF ~sim
       THEN /\ elValue' = text
            /\ focused' = TRUE
            /\ op' = [Disturb(op, s) EXCEPT ![s] =
                         [Started("type", text, sim) EXCEPT
                             !.pc = "done",
                             !.emitted = FastEvents(elKind, text),
                             !.final = text,
                             !.focusedAfter = TRUE]]
       ELSE LET cleared == IF elKind \in FormControls
                           THEN SimCleared(elValue) ELSE <<>>
                v == NewValue(cleared, text, 1)
            IN /\ elValue' = v
               /\ focused' = TRUE
               /\ op' = [Disturb(op, s) EXCEPT ![s] =
                            [Started("type", text, sim) EXCEPT
                                !.pc = "waiting",
                                !.i = 1,
                                !.emitted = <<Event("input", v)>>]]
    /\ UNCHANGED <<elKind, elPresent>>
    /\ UNCHANGED notTypeVars

\* typeFast(selector, text): return this.type(selector, text, false)
TypeFast(s, text) == Type(s, text, FALSE)

\* The 50ms timer of a simulated typing call elapses: the next character, or,
\* after the last one, the end of the loop and the final change event.
TypeResume(s) ==
    /\ op[s].pc = "waiting"
    /\ IF op[s].i < Len(op[s].text)
       THEN LET v == NewValue(elValue, op[s].text, op[s].i + 1)
            IN /\ elValue' = v
               /\ op' = [Disturb(op, s) EXCEPT ![s] =
                            [op[s] EXCEPT !.i = @ + 1,
                                          !.emitted =
                                              Append(@, Event("input", v))]]
       ELSE /\ op' = [op EXCEPT ![s] =
                         [op[s] EXCEPT !.pc = "done",
                                       !.emitted =
                                           @ \o SimEndEvents(elKind, elValue),
                                       !.final = elValue,
                                       !.focusedAfter = focused]]
            /\ UNCHANGED elValue
    /\ UNCHANGED <<elKind, elPresent, focused, opsStarted>>
    /\ UNCHANGED notTypeVars

\* clear(selector)
Clear(s) ==
    /\ FreeSlot(s)
    /\ opsStarted' = opsStarted + 1
    /\ IF ~Locatable
       THEN /\ op' = [op EXCEPT ![s] =
                         LocateFailure(Started("clear", <<>>, FALSE))]
            /\ UNCHANGED <<elValue, focused>>
       ELSE /\ elValue' = <<>>
            /\ focused' = TRUE
            /\ op' = [Disturb(op, s) EXCEPT ![s] =
                         [Started("clear", <<>>, FALSE) EXCEPT
                             !.pc = "done",
                             !.emitted = ClearEvents(elKind, <<>>),
                             !.final = <<>>,
                             !.focusedAfter = TRUE]]
    /\ UNCHANGED <<elKind, elPresent>>
    /\ UNCHANGED notTypeVars

\* click(selector): locate, focus, dispatch a click event.
Click(s) ==
    /\ FreeSlot(s)
    /\ opsStarted' = opsStarted + 1
    /\ IF ~elPresent
       THEN /\ op' = [op EXCEPT ![s] =
                         LocateFailure(Started("click", <<>>, FALSE))]
            /\ UNCHANGED focused
       ELSE /\ focused' = (focused \/ Focusable(elKind))
            /\ op' = [op EXCEPT ![s] =
                         [Started("click", <<>>, FALSE) EXCEPT
                             !.pc = "done",
                             !.emitted = <<Event("click", elValue)>>,
                             !.final = elValue,
                             !.focusedAfter = (focused \/ Focusable(elKind))]]
    /\ UNCHANGED <<elKind, elPresent, elValue>>
    /\ UNCHANGED notTypeVars

\* The block option scrollIntoView gets: "center" unless the caller's options
\* say otherwise.
ScrollBlock(options) == IF options = "" THEN "center" ELSE options

\* scrollToElement(selector, options): locate, element.scrollIntoView.
ScrollToElement(s, name, options) ==
    /\ FreeSlot(s)
    /\ opsStarted' = opsStarted + 1
    /\ IF ~elPresent
       THEN op' = [op EXCEPT ![s] = LocateFailure(Started(name, <<>>, FALSE))]
       ELSE op' = [op EXCEPT ![s] =
                      [Started(name, <<>>, FALSE) EXCEPT
                          !.pc = "done",
                          !.block = ScrollBlock(options),
                          !.final = elValue,
                          !.focusedAfter = focused]]
    /\ UNCHANGED <<elKind, elPresent, elValue, focused>>
    /\ UNCHANGED notTypeVars

\* scrollToElementTop(selector): this.scrollToElement(selector, {block: "start"})
ScrollToElementTop(s) == ScrollToElement(s, "scrollToElementTop", "start")

\* scrollToElementBottom(selector): this.scrollToElement(selector, {block: "end"})
ScrollToElementBottom(s) == ScrollToElement(s, "scrollToElementBottom", "end")

\* focus(selector) and blur(selector): locate the element, throw when there
\* is none; nothing else is done with it.
FocusOrBlur(s, name) ==
    /\ FreeSlot(s)
    /\ opsStarted' = opsStarted + 1
    /\ IF ~elPresent
       THEN op' = [op EXCEPT ![s] = LocateFailure(Started(name, <<>>, FALSE))]
       ELSE op' = [op EXCEPT ![s] =
                      [Started(name, <<>>, FALSE) EXCEPT
                          !.pc = "done",
                          !.final = elValue,
                          !.focusedAfter = focused]]
    /\ UNCHANGED <<elKind, elPresent, elValue, focused>>
    /\ UNCHANGED notTypeVars

Focus(s) == FocusOrBlur(s, "focus")

Blur(s) == FocusOrBlur(s, "blur")

\* The page removes the element from the document; a call that already
\* holds the element goes on writing to it.
RemoveTarget ==
    /\ elPresent
    /\ elPresent' = FALSE
    /\ focused' = FALSE
    /\ UNCHANGED <<elKind, elValue, op, opsStarted>>
    /\ UNCHANGED notTypeVars

TypeNext ==
    \/ \E s \in Slots, text \in Texts : Type(s, text, TRUE)
    \/ \E s \in Slots, text \in Texts : TypeFast(s, text)
    \/ \E s \in Slots : TypeResume(s)
    \/ \E s \in Slots : Clear(s)
    \/ \E s \in Slots : Click(s)
    \/ \E s \in Slots : ScrollToElement(s, "scrollToElement", "")
    \/ \E s \in Slots : ScrollToElementTop(s)
    \/ \E s \in Slots : ScrollToElementBottom(s)
    \/ \E s \in Slots : Focus(s)
    \/ \E s \in Slots : Blur(s)
    \/ RemoveTarget

(***************************************************************************)
(* 5. SELECTOR MATCHER                                                     *)
(***************************************************************************)
MaxAffordances == 2

\* Strings are sequences of one-character strings.
UpperCase == <<"A", "B", "C", "D", "E", "F", "G", "H", "I", "J", "K", "L", "M",
               "N", "O", "P", "Q", "R", "S", "T", "U", "V", "W", "X", "Y", "Z">>
LowerCase == <<"a", "b", "c", "d", "e", "f", "g", "h", "i", "j", "k", "l", "m",
               "n", "o", "p", "q", "r", "s", "t", "u", "v", "w", "x", "y", "z">>

LowerOf(c) ==
    IF \E k \in 1..Len(UpperCase) : UpperCase[k] = c
    THEN LowerCase[CHOOSE k \in 1..Len(UpperCase) : UpperCase[k] = c]
    ELSE c

\* String.prototype.toLowerCase
ToLowerCase(str) == [k \in 1..Len(str) |-> LowerOf(str[k])]

\* String.prototype.includes
Includes(hay, needle) ==
    \E k \in 0..(Len(hay) - Len(needle)) :
        SubSeq(hay, k + 1, k + Len(needle)) = needle

IsSpace(c) == c = " "

\* str.split(/\s+/): the pieces between runs of white space; a run at either
\* end of the string leaves an empty piece there.
RECURSIVE SplitFrom(_, _, _, _)
SplitFrom(str, k, cur, pieces) ==
    IF k > Len(str) THEN Append(pieces, cur)
    ELSE IF IsSpace(str[k])
         THEN IF k > 1 /\ IsSpace(str[k - 1])
              THEN SplitFrom(str, k + 1, cur, pieces)
              ELSE SplitFrom(str, k + 1, <<>>, Append(pieces, cur))
         ELSE SplitFrom(str, k + 1, Append(cur, str[k]), pieces)

SplitSpaces(str) == SplitFrom(str, 1, <<>>, <<>>)

\* The keyword loop: +20 for every keyword found in the name or in the tag.
RECURSIVE KeywordScore(_, _, _, _)
KeywordScore(keywords, k, nameLower, tagLower) ==
    IF k > Len(keywords) THEN 0
    ELSE (IF Includes(nameLower, keywords[k]) \/ Includes(tagLower, keywords[k])
          THEN 20 ELSE 0)
         + KeywordScore(keywords, k + 1, nameLower, tagLower)

\* The score before the action bonus.
BaseScoreCaseSensitive(intentStr, name, tag) ==
    LET intentLower == ToLowerCase(intentStr)
        nameLower == ToLowerCase(name)
        tagLower == ToLowerCase(tag)
    IN IF name = intentStr THEN 100
       ELSE IF Includes(nameLower, intentLower) \/ Includes(intentLower, nameLower)
       THEN 80
       ELSE IF Includes(intentLower, tagLower) \/ Includes(tagLower, intentLower)
       THEN 60
       ELSE KeywordScore(SplitSpaces(intentLower), 1, nameLower, tagLower)

BaseScore(intentStr, name, tag) ==
    LET intentLower == ToLowerCase(intentStr)
        nameLower == ToLowerCase(name)
        tagLower == ToLowerCase(tag)
    IN IF nameLower = intentLower THEN 100
       ELSE IF Includes(nameLower, intentLower) \/ Includes(intentLower, nameLower)
       THEN 80
       ELSE IF Includes(intentLower, tagLower) \/ Includes(tagLower, intentLower)
       THEN 60
       ELSE KeywordScore(SplitSpaces(intentLower), 1, nameLower, tagLower)

StrButton == <<"b", "u", "t", "t", "o", "n">>
StrA == <<"a">>
StrInput == <<"i", "n", "p", "u", "t">>
StrTextarea == <<"t", "e", "x", "t", "a", "r", "e", "a">>
StrDiv == <<"d", "i", "v">>

\* Boost score for action-appropriate elements.
ActionBonus(act, tag) ==
    LET tagLower == ToLowerCase(tag)
    IN IF act = "click" /\ tagLower \in {StrButton, StrA, StrInput} THEN 10
       ELSE IF act = "type" /\ tagLower \in {StrInput, StrTextarea} THEN 10
       ELSE 0

Score(intentStr, act, aff) ==
    BaseScore(intentStr, aff.name, aff.tag) + ActionBonus(act, aff.tag)

\* if (score > bestScore): a later affordance replaces the best one only with
\* a strictly higher score.
ReplacesOnTie(score, bestScore) == score >= bestScore

Replaces(score, bestScore) == score > bestScore

\* The scoring loop. best is <<index of bestMatch or 0, bestScore>>.
RECURSIVE BestFrom(_, _, _, _, _)
BestFrom(affs, k, intentStr, act, best) ==
    IF k > Len(affs) THEN best
    ELSE LET sc == Score(intentStr, act, affs[k])
         IN BestFrom(affs, k + 1, intentStr, act,
                     IF Replaces(sc, best[2]) THEN <<k, sc>> ELSE best)

Confidence(bestScore) ==
    IF bestScore >= 80 THEN "high" ELSE IF bestScore >= 40 THEN "medium" ELSE "low"

NoResult == [success |-> "none", index |-> 0, name |-> <<>>, tag |-> <<>>,
             confidence |-> "", matchScore |-> 0, suggestion |-> FALSE]

\* selectorTool.execute
Execute(intentStr, act, affs) ==
    LET best == BestFrom(affs, 1, intentStr, act, <<0, 0>>)
    IN IF best[1] # 0 /\ best[2] > 0
       THEN [success |-> "true", index |-> best[1],
             name |-> affs[best[1]].name, tag |-> affs[best[1]].tag,
             confidence |-> Confidence(best[2]), matchScore |-> best[2],
             suggestion |-> FALSE]
       ELSE [NoResult EXCEPT !.success = "false", !.suggestion = TRUE]

\* The inputs of the model: target descriptions, actions of the tool's enum,
\* affordance names and tags.
Intents == { <<"g", "o">>, <<"G", "o">>, <<"g", "o", " ", "o", "n">>,
             <<"o", "n">>, <<"a">>, <<"z", "z">>, <<" ", "g", "o">> }
Actions == {"click", "type", "focus"}
Names == { <<"G", "o">>, <<"g", "o">>, <<"G", "o", " ", "o", "n">>,
           <<"O", "k">> }
Tags == {StrButton, StrA, StrInput, StrDiv}

AffordanceLists ==
    UNION {[1..n -> [name : Names, tag : Tags]] : n \in 0..MaxAffordances}

MatchIdle ==
    /\ intent = <<>>
    /\ action = "click"
    /\ affordances = <<>>
    /\ result = NoResult

MatchInit ==
    /\ intent \in Intents
    /\ action \in Actions
    /\ affordances \in AffordanceLists
    /\ result = NoResult

SelectorExecute ==
    /\ result.success = "none"
    /\ result' = Execute(intent, action, affordances)
    /\ UNCHANGED <<intent, action, affordances>>
    /\ UNCHANGED notMatchVars

MatchNext == SelectorExecute

(***************************************************************************)
(* 6. ACTOR TOOL AND ITS DISPATCH                                          *)
(***************************************************************************)
\* An optional parameter is <<>> when absent and <<v>> when present; numbers
\* and booleans are written as strings.
Absent == <<>>

ToolActions ==
    {"click", "type", "clear", "waitForElement", "scrollTo", "scrollToTop",
     "scrollToBottom", "scrollBy", "scrollToElement", "scrollToElementTop",
     "scrollToElementBottom", "scrollPageDown", "scrollPageUp", "focus",
     "blur", "typeFast"}

requiredSelectorActions ==
    {"click", "type", "typeFast", "clear", "waitForElement", "scrollToElement",
     "scrollToElementTop", "scrollToElementBottom", "focus", "blur"}

requiredTextActions == {"type", "typeFast"}

\* !v for an optional string: undefined and the empty string are falsy.
FalsyOnlyUndefined(v) == v = Absent

Falsy(v) == v = Absent \/ v = <<"">>

NoParams == [selector |-> Absent, text |-> Absent, x |-> Absent, y |-> Absent,
             timeout |-> Absent, simulateTyping |-> Absent,
             scrollOptions |-> Absent]

NoOutput == [success |-> FALSE, executable |-> FALSE, error |-> "",
             actorMethod |-> Absent, actorParams |-> NoParams]

\* The actorParams object: selector, text and scrollOptions are spread in
\* when truthy, the others when not undefined.
ActorParams(in) ==
    [selector |-> IF Falsy(in.selector) THEN Absent ELSE in.selector,
     text |-> IF Falsy(in.text) THEN Absent ELSE in.text,
     x |-> in.x, y |-> in.y, timeout |-> in.timeout,
     simulateTyping |-> in.simulateTyping,
     scrollOptions |-> in.scrollOptions]

\* actorTool.execute
ActorToolExecute(in) ==
    IF in.action \in requiredSelectorActions /\ Falsy(in.selector)
    THEN [NoOutput EXCEPT !.error = "Selector is required"]
    ELSE IF in.action \in requiredTextActions /\ Falsy(in.text)
    THEN [NoOutput EXCEPT !.error = "Text is required"]
    ELSE [success |-> TRUE, executable |-> TRUE, error |-> "",
          actorMethod |-> <<in.action>>, actorParams |-> ActorParams(in)]

\* The order in which executeActorAction pushes the present parameters.
ParamOrder ==
    <<"selector", "text", "x", "y", "timeout", "simulateTyping",
      "scrollOptions">>

\* paramsList: selector is pushed when truthy, the others when not undefined.
RECURSIVE ParamsList(_, _)
ParamsList(params, k) ==
    IF k > Len(ParamOrder) THEN <<>>
    ELSE LET p == ParamOrder[k]
             present == IF p = "selector" THEN ~Falsy(params[p])
                        ELSE params[p] # Absent
         IN (IF present THEN <<params[p][1]>> ELSE <<>>)
            \o ParamsList(params, k + 1)

\* The parameters each Actor method declares, in their positional order (the
\* order in which the switch of the old format passes them).
DeclaredParams(method) ==
    CASE method = "type" -> <<"selector", "text", "simulateTyping">>
      [] method = "typeFast" -> <<"selector", "text">>
      [] method = "waitForElement" -> <<"selector", "timeout">>
      [] method \in {"scrollTo", "scrollBy"} -> <<"x", "y">>
      [] method = "scrollToElement" -> <<"selector", "scrollOptions">>
      [] method \in {"click", "clear", "scrollToElementTop",
                     "scrollToElementBottom", "focus", "blur"} -> <<"selector">>
      [] OTHER -> <<>>

\* The dispatch loop and executeActorAction for the output of a tool part
\* whose action id is neither executing nor completed: the Actor calls made.
Dispatched(out) ==
    IF ~out.executable \/ out.actorMethod = Absent THEN <<>>
    ELSE <<[method |-> out.actorMethod[1],
            args |-> ParamsList(out.actorParams, 1)]>>

ToolInputs ==
    [action : ToolActions,
     selector : {Absent, <<"">>, <<"#a">>},
     text : {Absent, <<"">>, <<"hi">>},
     x : {Absent, <<"0">>, <<"5">>},
     y : {Absent, <<"7">>},
     timeout : {Absent, <<"1000">>},
     simulateTyping : {Absent, <<"true">>, <<"false">>},
     scrollOptions : {Absent, <<"end">>}]

ToolIdle ==
    /\ toolIn = [action |-> "click", selector |-> Absent, text |-> Absent,
                 x |-> Absent, y |-> Absent, timeout |-> Absent,
                 simulateTyping |-> Absent, scrollOptions |-> Absent]
    /\ toolOut = NoOutput
    /\ toolPc = "input"
    /\ invoked = <<>>

ToolInit ==
    /\ toolIn \in ToolInputs
    /\ toolOut = NoOutput
    /\ toolPc = "input"
    /\ invoked = <<>>

\* The server runs the tool; its return value becomes the part's output.
ToolExecute ==
    /\ toolPc = "input"
    /\ toolOut' = ActorToolExecute(toolIn)
    /\ toolPc' = "planned"
    /\ UNCHANGED <<toolIn, invoked>>
    /\ UNCHANGED notToolVars

\* The widget's effect sees the output in the latest assistant message.
ToolDispatch ==
    /\ toolPc = "planned"
    /\ invoked' = invoked \o Dispatched(toolOut)
    /\ toolPc' = "dispatched"
    /\ UNCHANGED <<toolIn, toolOut>>
    /\ UNCHANGED notToolVars

ToolNext ==
    \/ ToolExecute
    \/ ToolDispatch

(***************************************************************************)
(* 7. INTENT TOOL                                                          *)
(***************************************************************************)
MaxWords == 2

\* The words requests and configurations are made of.
W ==
    [update |-> <<"u", "p", "d", "a", "t", "e">>,
     name |-> <<"n", "a", "m", "e">>,
     nameCap |-> <<"N", "a", "m", "e">>,
     email |-> <<"e", "m", "a", "i", "l">>,
     bob |-> <<"b", "o", "b">>,
     reset |-> <<"r", "e", "s", "e", "t">>,
     save |-> <<"s", "a", "v", "e">>,
     scroll |-> <<"s", "c", "r", "o", "l", "l">>,
     your |-> <<"y", "o", "u", "r">>,
     all |-> <<"a", "l", "l">>,
     settings |-> <<"s", "e", "t", "t", "i", "n", "g", "s">>,
     other |-> <<"o", "t", "h", "e", "r">>]

RECURSIVE JoinWith(_, _)
JoinWith(words, sep) ==
    IF words = <<>> THEN <<>>
    ELSE IF Len(words) = 1 THEN words[1]
    ELSE words[1] \o sep \o JoinWith(Tail(words), sep)

\* str.split(sep) for a one-character separator.
RECURSIVE SplitOnFrom(_, _, _, _, _)
SplitOnFrom(str, sep, k, cur, pieces) ==
    IF k > Len(str) THEN Append(pieces, cur)
    ELSE IF str[k] = sep
         THEN SplitOnFrom(str, sep, k + 1, <<>>, Append(pieces, cur))
         ELSE SplitOnFrom(str, sep, k + 1, Append(cur, str[k]), pieces)

SplitOn(str, sep) == SplitOnFrom(str, sep, 1, <<>>, <<>>)

\* +30 for every word of the intent name found in the request.
NameScore(requestLower, intentName) ==
    LET ws == SplitOn(intentName, "-")
    IN 30 * Cardinality({k \in 1..Len(ws) : Includes(requestLower, ws[k])})

\* +20 for every field name found in the request.
FieldScore(requestLower, fields) ==
    20 * Cardinality({k \in 1..Len(fields) :
                     Includes(requestLower, ToLowerCase(fields[k].name))})

\* +10 for every word of more than 3 characters of an action description
\* found in the request.
DescriptionScore(requestLower, description) ==
    LET ws == SplitSpaces(ToLowerCase(description))
    IN 10 * Cardinality({k \in 1..Len(ws) :
                        Len(ws[k]) > 3 /\ Includes(requestLower, ws[k])})

RECURSIVE ActionsScore(_, _, _)
ActionsScore(requestLower, actions, k) ==
    IF k > Len(actions) THEN 0
    ELSE DescriptionScore(requestLower, actions[k].description)
         + ActionsScore(requestLower, actions, k + 1)

IntentScore(requestLower, def) ==
    NameScore(requestLower, def.name) + FieldScore(requestLower, def.fields)
        + ActionsScore(requestLower, def.actions, 1)

\* The keywords of the heuristic path.
Kw ==
    [click |-> <<"c", "l", "i", "c", "k">>,
     press |-> <<"p", "r", "e", "s", "s">>,
     tap |-> <<"t", "a", "p">>,
     type |-> <<"t", "y", "p", "e">>,
     enter |-> <<"e", "n", "t", "e", "r">>,
     input |-> <<"i", "n", "p", "u", "t">>,
     fill |-> <<"f", "i", "l", "l">>,
     clear |-> <<"c", "l", "e", "a", "r">>,
     empty |-> <<"e", "m", "p", "t", "y">>,
     delete |-> <<"d", "e", "l", "e", "t", "e">>,
     focus |-> <<"f", "o", "c", "u", "s">>,
     select |-> <<"s", "e", "l", "e", "c", "t">>,
     scroll |-> <<"s", "c", "r", "o", "l", "l">>,
     toTop |-> <<"t", "o", " ", "t", "o", "p">>,
     upToTop |-> <<"u", "p", " ", "t", "o", " ", "t", "o", "p">>,
     toBottom |-> <<"t", "o", " ", "b", "o", "t", "t", "o", "m">>,
     downToBottom |-> <<"d", "o", "w", "n", " ", "t", "o", " ", "b", "o", "t", "t", "o", "m">>,
     to |-> <<"t", "o">>,
     top |-> <<"t", "o", "p">>,
     bottom |-> <<"b", "o", "t", "t", "o", "m">>,
     down |-> <<"d", "o", "w", "n">>,
     up |-> <<"u", "p">>,
     wait |-> <<"w", "a", "i", "t">>,
     find |-> <<"f", "i", "n", "d">>]

\* The intent with the highest score above 0 among the intents of the
\* categories searched, an earlier one winning a tie: <<category index,
\* intent index, score>>, or <<0, 0, 0>> when there is none.
RECURSIVE BestIntentFrom(_, _, _, _, _, _)
BestIntentFrom(config, requestLower, hint, c, k, best) ==
    IF c > Len(config) THEN best
    ELSE IF (hint # Absent /\ hint[1] # <<>> /\ config[c].name # hint[1])
            \/ k > Len(config[c].intents)
    THEN BestIntentFrom(config, requestLower, hint, c + 1, 1, best)
    ELSE LET score == IntentScore(requestLower, config[c].intents[k])
         IN BestIntentFrom(config, requestLower, hint, c, k + 1,
                           IF score > 0 /\ (best[1] = 0 \/ score > best[3])
                           THEN <<c, k, score>> ELSE best)

IntentConfidenceLax(score) ==
    IF score >= 50 THEN "high" ELSE IF score > 0 THEN "medium" ELSE "low"

IntentConfidence(score) ==
    IF score >= 50 THEN "high" ELSE IF score >= 30 THEN "medium" ELSE "low"

\* matchIntentFromUserRequest
matchIntentFromUserRequest(config, request, hint) ==
    LET best == BestIntentFrom(config, ToLowerCase(request), hint, 1, 1,
                               <<0, 0, 0>>)
    IN IF best[1] = 0
       THEN [found |-> FALSE, cat |-> 0, k |-> 0, confidence |-> "low"]
       ELSE [found |-> TRUE, cat |-> best[1], k |-> best[2],
             confidence |-> IntentConfidence(best[3])]

\* The field pattern `${fieldName}[:\s]+([^\s,]+)` with flag i.
IsSeparator(c) == c = ":" \/ IsSpace(c)
IsValueChar(c) == ~IsSpace(c) /\ c # ","

NameAt(request, fieldName, k) ==
    /\ k + Len(fieldName) - 1 <= Len(request)
    /\ ToLowerCase(SubSeq(request, k, k + Len(fieldName) - 1))
           = ToLowerCase(fieldName)

\* The lengths the separator run can have for a match of the name at k.
SeparatorLengths(request, fieldName, k) ==
    {j \in 1..Len(request) :
        /\ k + Len(fieldName) + j <= Len(request)
        /\ \A m \in 0..(j - 1) : IsSeparator(request[k + Len(fieldName) + m])
        /\ IsValueChar(request[k + Len(fieldName) + j])}

MatchPositions(request, fieldName) ==
    {k \in 1..Len(request) :
        NameAt(request, fieldName, k)
            /\ SeparatorLengths(request, fieldName, k) # {}}

RECURSIVE ValueRun(_, _)
ValueRun(request, k) ==
    IF k > Len(request) \/ ~IsValueChar(request[k]) THEN <<>>
    ELSE <<request[k]>> \o ValueRun(request, k + 1)

\* The value captured for one field: the leftmost match, its separator run as
\* long as it can be, then the characters up to white space or a comma; Absent
\* stands for null.
ExtractField(request, fieldName) ==
    LET ks == MatchPositions(request, fieldName)
    IN IF ks = {} THEN Absent
       ELSE LET k == CHOOSE x \in ks : \A y \in ks : x <= y
                js == SeparatorLengths(request, fieldName, k)
                j == CHOOSE x \in js : \A y \in js : x >= y
            IN <<ValueRun(request, k + Len(fieldName) + j)>>

\* extractFieldsFromRequest
extractFieldsFromRequest(request, def) ==
    [k \in 1..Len(def.fields) |->
        [name |-> def.fields[k].name,
         value |-> ExtractField(request, def.fields[k].name)]]

TypeNames ==
    [string |-> <<"s", "t", "r", "i", "n", "g">>,
     object |-> <<"o", "b", "j", "e", "c", "t">>]

\* typeof data[fieldName]: a captured value is a string, null is an object.
TypeOf(value) == IF value = Absent THEN TypeNames.object ELSE TypeNames.string

\* The errors validateIntent pushes for one field.
FieldErrorsRequiredIgnored(field, value) ==
    (IF value = Absent
     THEN <<[kind |-> "missing", field |-> field.name]>> ELSE <<>>)
    \o (IF TypeOf(value) # ToLowerCase(field.type)
        THEN <<[kind |-> "type", field |-> field.name]>> ELSE <<>>)

FieldErrors(field, value) ==
    (IF field.required /\ value = Absent
     THEN <<[kind |-> "missing", field |-> field.name]>> ELSE <<>>)
    \o (IF TypeOf(value) # ToLowerCase(field.type)
        THEN <<[kind |-> "type", field |-> field.name]>> ELSE <<>>)

RECURSIVE AllErrors(_, _, _)
AllErrors(fields, data, k) ==
    IF k > Len(fields) THEN <<>>
    ELSE FieldErrors(fields[k], data[k].value) \o AllErrors(fields, data, k + 1)

\* The elements of a sequence that are in a set, in order.
RECURSIVE Filter(_, _)
Filter(seq, keep) ==
    IF seq = <<>> THEN <<>>
    ELSE (IF Head(seq) \in keep THEN <<Head(seq)>> ELSE <<>>)
         \o Filter(Tail(seq), keep)

\* x.length > 0 ? x : undefined
NonEmptyOrUndefined(list) == IF list = <<>> THEN Absent ELSE <<list>>

\* validateIntent, for the configured intent def and the extracted data.
validateIntent(def, data) ==
    LET errors == AllErrors(def.fields, data, 1)
        missing == Filter(errors, {e \in Range(errors) : e.kind = "missing"})
    IN [valid |-> errors = <<>>,
        errors |-> NonEmptyOrUndefined(errors),
        missingFields |->
            NonEmptyOrUndefined([k \in 1..Len(missing) |-> missing[k].field])]

\* String.prototype.trim
RECURSIVE Trim(_)
Trim(str) ==
    IF str = <<>> THEN str
    ELSE IF IsSpace(Head(str)) THEN Trim(Tail(str))
    ELSE IF IsSpace(str[Len(str)]) THEN Trim(SubSeq(str, 1, Len(str) - 1))
    ELSE str

\* The branch the heuristic path takes for the lower-cased, trimmed request.
HeuristicBranch(request) ==
    IF \E w \in {Kw.click, Kw.press, Kw.tap} : Includes(request, w) THEN "click"
    ELSE IF \E w \in {Kw.type, Kw.enter, Kw.input, Kw.fill} : Includes(request, w)
    THEN "type"
    ELSE IF \E w \in {Kw.clear, Kw.empty, Kw.delete} : Includes(request, w)
    THEN "clear"
    ELSE IF \E w \in {Kw.focus, Kw.select} : Includes(request, w) THEN "focus"
    ELSE IF Includes(request, Kw.scroll)
    THEN IF Includes(request, Kw.toTop) \/ Includes(request, Kw.upToTop)
         THEN "scrollToTop"
         ELSE IF Includes(request, Kw.toBottom)
                 \/ Includes(request, Kw.downToBottom)
         THEN "scrollToBottom"
         ELSE IF Includes(request, Kw.to) /\ ~Includes(request, Kw.top)
                 /\ ~Includes(request, Kw.bottom)
         THEN "scrollTo"
         ELSE IF Includes(request, Kw.down) THEN "scrollDown"
         ELSE IF Includes(request, Kw.up) THEN "scrollUp"
         ELSE "scrollPage"
    ELSE IF Includes(request, Kw.wait) \/ Includes(request, Kw.find)
    THEN "waitForElement"
    ELSE "default"

\* The action the heuristic path picks for the lower-cased, trimmed request.
HeuristicAction(request) ==
    LET b == HeuristicBranch(request)
    IN CASE b \in {"scrollDown", "scrollUp"} -> "scrollBy"
         [] b = "scrollPage" -> "scrollTo"
         [] b = "default" -> "click"
         [] OTHER -> b

\* The other words of the extraction patterns and of the target clean-up.
Pw ==
    [the |-> <<"t", "h", "e">>,
     a |-> <<"a">>,
     an |-> <<"a", "n">>,
     on |-> <<"o", "n">>,
     in |-> <<"i", "n">>,
     into |-> <<"i", "n", "t", "o">>,
     for |-> <<"f", "o", "r">>,
     button |-> <<"b", "u", "t", "t", "o", "n">>,
     link |-> <<"l", "i", "n", "k">>,
     field |-> <<"f", "i", "e", "l", "d">>,
     element |-> <<"e", "l", "e", "m", "e", "n", "t">>,
     page |-> <<"p", "a", "g", "e">>,
     topOfPage |-> <<"t", "o", "p", " ", "o", "f", " ", "p", "a", "g", "e">>,
     bottomOfPage |-> <<"b", "o", "t", "t", "o", "m", " ", "o", "f", " ", "p", "a", "g", "e">>,
     ok |-> <<"o", "k">>]

\* The first position at or after p that holds no white space.
RECURSIVE SkipSpaces(_, _)
SkipSpaces(str, p) ==
    IF p <= Len(str) /\ IsSpace(str[p]) THEN SkipSpaces(str, p + 1) ELSE p

\* word\s+ matched at p: the position after the run of white space, 0 when
\* there is no match.
WordAt(str, p, word) ==
    IF /\ p + Len(word) <= Len(str)
       /\ SubSeq(str, p, p + Len(word) - 1) = word
       /\ IsSpace(str[p + Len(word)])
    THEN SkipSpaces(str, p + Len(word)) ELSE 0

\* word1\s+word2\s+... matched at p.
RECURSIVE WordsAt(_, _, _)
WordsAt(str, p, words) ==
    IF words = <<>> \/ p = 0 THEN p
    ELSE WordsAt(str, WordAt(str, p, Head(words)), Tail(words))

\* (?:word1\s+)?(?:word2\s+)? matched at p, each group taken when it matches
\* and leaves a character for the capture.
RECURSIVE SkipOptional(_, _, _)
SkipOptional(str, p, words) ==
    IF words = <<>> THEN p
    ELSE LET q == WordAt(str, p, Head(words))
         IN SkipOptional(str, IF q = 0 \/ q > Len(str) THEN p ELSE q,
                         Tail(words))

\* str.match(/(?:head1|head2|...)\s+(?:opt\s+)?(.+)/)[1]: the rest of the
\* request after the leftmost head and the optional words; the empty string
\* stands for no match (a capture has one character at least).
Capture(str, heads, optional) ==
    LET matchAt(p) == {h \in heads : WordsAt(str, p, h) \in 1..Len(str)}
        starts == {p \in 1..Len(str) : matchAt(p) # {}}
    IN IF starts = {} THEN <<>>
       ELSE LET p == CHOOSE x \in starts : \A y \in starts : x <= y
                h == CHOOSE x \in matchAt(p) : TRUE
            IN SubSeq(str, SkipOptional(str, WordsAt(str, p, h), optional),
                      Len(str))

\* A trailing \s+(noun1|noun2|...)$ removed, up to the white space a later
\* trim removes.
StripNoun(str, nouns) ==
    LET ending == {n \in nouns :
                     /\ Len(str) > Len(n)
                     /\ SubSeq(str, Len(str) - Len(n) + 1, Len(str)) = n
                     /\ IsSpace(str[Len(str) - Len(n)])}
    IN IF ending = {} THEN str
       ELSE SubSeq(str, 1, Len(str) - Len(CHOOSE n \in ending : TRUE) - 1)

\* The target of the type branch: the second capture of
\* /(?:type|enter|input|fill)\s+(.+?)\s+(?:in|into|to)\s+(?:the\s+)?(.+)/, the
\* first capture as short as it can be; failing that, the capture of
\* /(?:type|enter|input|fill)\s+(?:in|into|to)\s+(?:the\s+)?(.+)/.
TypeTarget(str) ==
    LET heads == {Kw.type, Kw.enter, Kw.input, Kw.fill}
        preps == {Pw.in, Pw.into, Kw.to}
        after(j) == {WordAt(str, SkipSpaces(str, j), w) : w \in preps}
                        \cap (1..Len(str))
        splits == {pj \in (1..Len(str)) \X (1..Len(str)) :
                     /\ \E h \in heads :
                            LET q == WordAt(str, pj[1], h)
                            IN q # 0 /\ pj[2] > q
                     /\ IsSpace(str[pj[2]])
                     /\ after(pj[2]) # {}}
    IN IF splits # {}
       THEN LET pj == CHOOSE x \in splits :
                         \A y \in splits :
                             x[1] < y[1] \/ (x[1] = y[1] /\ x[2] <= y[2])
            IN SubSeq(str,
                      SkipOptional(str, CHOOSE r \in after(pj[2]) : TRUE,
                                   <<Pw.the>>),
                      Len(str))
       ELSE Capture(str, {<<h, w>> : h \in heads, w \in preps}, <<Pw.the>>)

\* The target the branch extracts from the lower-cased, trimmed request.
HeuristicTarget(request) ==
    LET b == HeuristicBranch(request)
    IN CASE b = "click" ->
              LET c == Capture(request, {<<Kw.click>>, <<Kw.press>>, <<Kw.tap>>},
                               <<Pw.the>>)
              IN IF c # <<>>
                 THEN Trim(StripNoun(c, {Pw.button, Pw.link, Pw.element}))
                 ELSE Capture(request,
                              {<<Pw.button>>, <<Pw.link>>, <<Pw.element>>}, <<>>)
         [] b = "type" -> TypeTarget(request)
         [] b = "clear" ->
              Capture(request, {<<Kw.clear>>, <<Kw.empty>>, <<Kw.delete>>},
                      <<Pw.the>>)
         [] b = "focus" ->
              Capture(request, {<<Kw.focus>>, <<Kw.select>>}, <<Pw.on, Pw.the>>)
         [] b = "scrollToTop" -> Pw.topOfPage
         [] b = "scrollToBottom" -> Pw.bottomOfPage
         [] b = "scrollTo" ->
              Capture(request, {<<Kw.scroll, Kw.to>>}, <<Pw.the>>)
         [] b = "scrollDown" -> Kw.down
         [] b = "scrollUp" -> Kw.up
         [] b = "scrollPage" -> Pw.page
         [] b = "waitForElement" ->
              Capture(request, {<<Kw.wait, Pw.for>>, <<Kw.find>>}, <<Pw.the>>)
         [] OTHER -> request

\* target.replace(/\s+/g, " ")
RECURSIVE CollapseSpaces(_)
CollapseSpaces(str) ==
    IF str = <<>> THEN <<>>
    ELSE IF IsSpace(Head(str))
         THEN <<" ">> \o CollapseSpaces(SubSeq(str, SkipSpaces(str, 1), Len(str)))
         ELSE <<Head(str)>> \o CollapseSpaces(Tail(str))

\* The clean-up of the target: white space collapsed, a leading article and a
\* trailing generic noun removed, trimmed.
CleanTarget(target) ==
    LET collapsed == CollapseSpaces(target)
        articles == {w \in {Pw.the, Pw.a, Pw.an} : WordAt(collapsed, 1, w) # 0}
        bare == IF articles = {} THEN collapsed
                ELSE SubSeq(collapsed,
                            WordAt(collapsed, 1, CHOOSE w \in articles : TRUE),
                            Len(collapsed))
    IN Trim(StripNoun(bare, {Pw.button, Pw.link, Pw.field, Kw.input,
                             Pw.element}))

\* confidence: target.length > 0 ? "high" : "medium"
HeuristicConfidence(target) == IF Len(target) > 0 THEN "high" ELSE "medium"

NoValidation == [valid |-> FALSE, errors |-> Absent, missingFields |-> Absent]

NoIntentOut == [success |-> FALSE, intentType |-> "none", cat |-> 0, k |-> 0,
                confidence |-> "", fields |-> <<>>,
                validation |-> NoValidation, action |-> "", target |-> <<>>]

\* intentTool.execute
IntentExecute(config, request, hint) ==
    LET m == matchIntentFromUserRequest(config, request, hint)
    IN IF m.found /\ m.confidence # "low"
       THEN LET def == config[m.cat].intents[m.k]
                extracted == extractFieldsFromRequest(request, def)
            IN [NoIntentOut EXCEPT
                   !.success = TRUE, !.intentType = "structured",
                   !.cat = m.cat, !.k = m.k, !.confidence = m.confidence,
                   !.fields = extracted,
                   !.validation = validateIntent(def, extracted)]
       ELSE LET lowered == Trim(ToLowerCase(request))
                target == CleanTarget(HeuristicTarget(lowered))
            IN [NoIntentOut EXCEPT
                   !.success = TRUE, !.intentType = "natural_language",
                   !.action = HeuristicAction(lowered),
                   !.target = target,
                   !.confidence = HeuristicConfidence(target)]

\* The configurations of the model: one category with an intent of two fields,
\* each required or not, and an intent without fields.
IntentConfigs ==
    { << [name |-> W.settings,
          intents |-> <<
             [name |-> W.update \o <<"-">> \o W.name,
              fields |-> << [name |-> W.name, type |-> TypeNames.string,
                             required |-> r1],
                            [name |-> W.email, type |-> TypeNames.string,
                             required |-> r2] >>,
              actions |-> << [description |->
                                 JoinWith(<<W.save, W.your, W.name>>, <<" ">>)] >>],
             [name |-> W.reset,
              fields |-> <<>>,
              actions |-> << [description |->
                                 JoinWith(<<W.reset, W.all>>, <<" ">>)] >>] >>] >>
      : r1 \in BOOLEAN, r2 \in BOOLEAN }

Vocabulary ==
    {W.update, W.name, W.nameCap, W.name \o <<":">>, W.email, W.bob, W.reset, W.save,
     W.scroll}

\* Requests for the heuristic path, none of them with a word of the
\* configured intents.
HeuristicRequests ==
    {JoinWith(ws, <<" ">>) :
        ws \in { <<Kw.scroll, Kw.to, Kw.top>>,
                 <<Kw.scroll, Kw.to, Pw.the, Kw.top>>,
                 <<Kw.scroll, Kw.to, Pw.the, Kw.bottom>>,
                 <<Kw.scroll, Kw.top>>,
                 <<Kw.scroll, Kw.down>>,
                 <<Kw.scroll, Kw.to, Pw.the, Pw.page>>,
                 <<Kw.scroll, Kw.to>>,
                 <<Kw.click>>,
                 <<Kw.click, Pw.the, Pw.ok, Pw.button>>,
                 <<Pw.link, Pw.ok, Kw.tap>>,
                 <<Kw.type, W.bob, Pw.in, Pw.the, Pw.ok, Pw.field>>,
                 <<Kw.fill, Pw.in, Pw.the, Pw.field>>,
                 <<Kw.clear, Pw.the, Pw.field>>,
                 <<Kw.focus, Pw.on, Pw.the, Pw.link>>,
                 <<Kw.find, Pw.an, Pw.ok, Pw.link>>,
                 <<Pw.the, Pw.ok, Pw.button>>,
                 <<W.bob>> }}

Requests ==
    {JoinWith(ws, <<" ">>) :
        ws \in UNION {[1..n -> Vocabulary] : n \in 1..MaxWords}}
        \cup HeuristicRequests

CategoryHints == {Absent, << <<>> >>, <<W.settings>>, <<W.other>>}

IntentIdle ==
    /\ userRequest = <<>>
    /\ categoryHint = Absent
    /\ intentConfig = <<>>
    /\ intentOut = NoIntentOut

IntentInit ==
    /\ userRequest \in Requests
    /\ categoryHint \in CategoryHints
    /\ intentConfig \in IntentConfigs
    /\ intentOut = NoIntentOut

IntentToolExecute ==
    /\ intentOut.intentType = "none"
    /\ intentOut' = IntentExecute(intentConfig, userRequest, categoryHint)
    /\ UNCHANGED <<userRequest, categoryHint, intentConfig>>
    /\ UNCHANGED notIntentVars

IntentNext == IntentToolExecute

(***************************************************************************)
(* SPECIFICATIONS                                                          *)
(***************************************************************************)
GuardSpecInit ==
    GuardInit /\ DomInit /\ WaitInit /\ TypeIdle /\ MatchIdle /\ ToolIdle /\ IntentIdle
GuardSpec == GuardSpecInit /\ [][GuardNext]_vars

\* The guard with its scheduling: React commits queued state updates and runs
\* the effect, every Actor call settles (waitForElement by its timeout at the
\* latest), and the 100ms timer fires. The call that reaches the model's cap
\* on calls per action returns.
ActorThrowsBelowCap(id) == calls[id] < MaxCalls /\ ActorThrows(id)

\* The answers considered have at most MaxExecutable executable parts, and
\* their parts are tool parts (a text part is never handed to the Actor).
MaxExecutable == 1

FewExecutable(msgs) ==
    \A n \in 1..Len(msgs) :
        Cardinality({p \in 1..Len(msgs[n].parts) : msgs[n].parts[p] = "exec"})
            <= MaxExecutable

StreamToolPart(k) == StreamPart(k) /\ FewExecutable(messages')

FewToolOutput(p, k) == ToolOutput(p, k) /\ FewExecutable(messages')

GuardLiveNext ==
    \/ SendMessage
    \/ \E k \in {"exec", "nooutput"} : StreamToolPart(k)
    \/ \E p \in 1..MaxParts, k \in {"exec", "noexec"} : FewToolOutput(p, k)
    \/ StreamEnd
    \/ Render
    \/ \E id \in ActionIds : ActorReturns(id)
    \/ \E id \in ActionIds : ActorThrowsBelowCap(id)
    \/ \E id \in ActionIds : DelayElapsed(id)

GuardLiveSpecInit ==
    GuardInit /\ DomInit /\ WaitInit /\ TypeIdle /\ MatchIdle /\ ToolIdle /\ IntentIdle
GuardLiveSpec ==
    /\ GuardLiveSpecInit
    /\ [][GuardLiveNext]_vars
    /\ WF_vars(Render)
    /\ \A id \in ActionIds :
           /\ WF_vars(ActorReturns(id) \/ ActorThrowsBelowCap(id))
           /\ WF_vars(DelayElapsed(id))

DomSpecInit ==
    DomInit /\ GuardInit /\ WaitInit /\ TypeIdle /\ MatchIdle /\ ToolIdle /\ IntentIdle
DomSpec == DomSpecInit /\ [][DomNext]_vars

\* The event loop runs a due timer callback and a queued observer callback,
\* and time passes. An observer callback is a microtask and comes before the
\* timer task, which is run all the same however often the page mutates.
WaitSpecInit ==
    WaitInit /\ GuardInit /\ DomInit /\ TypeIdle /\ MatchIdle /\ ToolIdle /\ IntentIdle
WaitSpec ==
    /\ WaitSpecInit
    /\ [][WaitNext]_vars
    /\ WF_vars(Tick)
    /\ SF_vars(TimerFires)
    /\ WF_vars(ObserverCallback)

TypeSpecInit ==
    TypeInit /\ GuardInit /\ DomInit /\ WaitInit /\ MatchIdle /\ ToolIdle /\ IntentIdle
TypeSpec == TypeSpecInit /\ [][TypeNext]_vars

MatchSpecInit ==
    MatchInit /\ GuardInit /\ DomInit /\ WaitInit /\ TypeIdle /\ ToolIdle /\ IntentIdle
MatchSpec == MatchSpecInit /\ [][MatchNext]_vars

ToolSpecInit ==
    ToolInit /\ GuardInit /\ DomInit /\ WaitInit /\ TypeIdle /\ MatchIdle
        /\ IntentIdle
ToolSpec == ToolSpecInit /\ [][ToolNext]_vars

IntentSpecInit ==
    IntentInit /\ GuardInit /\ DomInit /\ WaitInit /\ TypeIdle /\ MatchIdle
        /\ ToolIdle
IntentSpec == IntentSpecInit /\ [][IntentNext]_vars

(***************************************************************************)
(* PROPERTIES                                                              *)
(***************************************************************************)
\* C1: at-most-once. However often the dispatch effect re-observes the same
\* executable tool part, the Actor is invoked at most once for its action id.
C1_AtMostOnce == \A id \in ActionIds : calls[id] <= 1

\* C2: failures are terminal. Once the Actor call of an action id has thrown,
\* the id is in the completed set (or its completion is queued for the next
\* render) and the Actor is not invoked for it again.
C2_FailureTerminal ==
    \A id \in ActionIds :
        threw[id] =>
            /\ calls[id] <= 1
            /\ \/ id \in completedActions
               \/ <<"addCompleted", id>> \in Range(updates)

\* C3: no overlap. At no time are the Actor calls of two distinct action ids
\* in flight together: a part's call starts only after the previous part's
\* call has settled.
C3_NoOverlap == Cardinality({id \in ActionIds : ncalling[id] > 0}) <= 1

\* C4: selector uniqueness. No two elements of the document carry the same
\* identity attribute value, and the selector of every affordance of the last
\* scan resolves to the element that produced it, while that element is still
\* in the document.
C4_SelectorUnique ==
    /\ \A i, j \in 1..Len(doc) :
           (i # j /\ idAttr[doc[i]] # NoId) => idAttr[doc[i]] # idAttr[doc[j]]
    /\ \A k \in 1..Len(lastScan) :
           lastScan[k].node \in Range(doc) =>
               QuerySelector(doc, idAttr, lastScan[k].selector)
                   = lastScan[k].node

\* C5: idempotent identity assignment. Two scans with no DOM mutation between
\* them give every element they both return the same id and the same
\* selector, and no step changes the identity attribute of an element that
\* carries one and stays in the document.
C5_SameInBothScans ==
    cleanPair =>
        \A i \in 1..Len(prevScan), j \in 1..Len(lastScan) :
            prevScan[i].node = lastScan[j].node =>
                /\ prevScan[i].id = lastScan[j].id
                /\ prevScan[i].selector = lastScan[j].selector

C5_NeverOverwritten ==
    \A n \in Nodes :
        (n \in Range(doc) /\ n \in Range(doc') /\ idAttr[n] # NoId)
            => idAttr'[n] = idAttr[n]

C5_Idempotent == []C5_SameInBothScans /\ [][C5_NeverOverwritten]_vars

\* A second scan of an unchanged document that returned two elements with the
\* same hash base, the second told apart by a counter suffix.
C5_Witness ==
    /\ cleanPair
    /\ Len(prevScan) >= 2
    /\ \E i, j \in 1..Len(lastScan) :
           /\ i < j
           /\ lastScan[i].id[1] = lastScan[j].id[1]
           /\ lastScan[j].id[2] = 1

\* C6: waitForElement on a selector that never matches rejects with the
\* timeout error, not before the timeout has elapsed and eventually; when the
\* element exists at call time the promise is resolved by the call itself.
C6_NotEarly == promise = "rejected" => now >= startTime + timeout

C6_OnlyAMatchResolves == promise = "resolved" => everMatched

C6_Immediate == existedAtCall => promise = "resolved"

C6_Eventually == (promise = "pending") ~> (promise = "rejected" \/ everMatched)

C6_Timeout ==
    /\ [](C6_NotEarly /\ C6_OnlyAMatchResolves /\ C6_Immediate)
    /\ C6_Eventually

\* The wait timed out on a selector that never matched, at a time after 0.
C6_Witness ==
    /\ promise = "rejected"
    /\ ~everMatched
    /\ startTime > 0
    /\ now = startTime + timeout

\* C7: no leaked observer. Whenever the promise has settled the observer is
\* not connected, and when the element exists at call time no observer is
\* created.
C7_NoLeakedObserver ==
    /\ promise \in {"resolved", "rejected"} => observer # "observing"
    /\ existedAtCall => observer = "none"

\* The promise was resolved by the observer callback, which disconnected.
C7_Witness ==
    /\ promise = "resolved"
    /\ ~existedAtCall
    /\ observer = "disconnected"
    /\ timerArmed

EventTypes(es) == [k \in 1..Len(es) |-> es[k][1]]

\* C8: typing replaces. A type call into an input or textarea that ran to its
\* end with no other writer of the element in between leaves the element's
\* value equal to the text, in instant and in simulated mode alike.
C8_TypeSetsValue ==
    \A s \in Slots :
        (/\ op[s].name = "type"
         /\ op[s].pc = "done"
         /\ elKind \in FormControls
         /\ ~op[s].disturbed)
            => op[s].final = op[s].text

\* A simulated and an instant type call have both finished undisturbed on an
\* element, the simulated one of several characters over a non-empty value.
C8_Witness ==
    /\ elKind \in FormControls
    /\ \E s, t \in Slots :
           /\ op[s].name = "type" /\ op[s].pc = "done" /\ op[s].sim
           /\ ~op[s].disturbed
           /\ Len(op[s].text) >= 2
           /\ op[s].prior # <<>>
           /\ op[t].name = "type" /\ op[t].pc = "done" /\ ~op[t].sim
           /\ op[t].prior # <<>>

\* C9: clear on an input or textarea leaves the empty value and dispatches
\* one input event then one change event; on a contenteditable element it
\* empties the text and dispatches one input event and no change event.
C9_Clear ==
    \A s \in Slots :
        (op[s].name = "clear" /\ op[s].pc = "done") =>
            /\ op[s].final = <<>>
            /\ elKind \in FormControls
                   => EventTypes(op[s].emitted) = <<"input", "change">>
            /\ elKind = "contenteditable"
                   => EventTypes(op[s].emitted) = <<"input">>

\* A clear of a textarea that held a value.
C9_Witness ==
    \E s \in Slots :
        /\ op[s].name = "clear" /\ op[s].pc = "done"
        /\ op[s].prior # <<>>
        /\ elKind = "textarea"
        /\ elValue = <<>>

\* Some affordance of the list has exactly the target as its name, case apart.
SomeExactName ==
    \E k \in 1..Len(affordances) :
        ToLowerCase(affordances[k].name) = ToLowerCase(intent)

Tokens(str) == {t \in Range(SplitSpaces(ToLowerCase(str))) : t # <<>>}

\* The target shares a token with the name or the tag of some affordance.
SharesToken ==
    \E k \in 1..Len(affordances) :
        Tokens(intent) \cap
            (Tokens(affordances[k].name) \cup Tokens(affordances[k].tag)) # {}

\* C11: when the target description shares no token with the name or tag of
\* any affordance, the matcher returns the no-match result (success false
\* with a suggestion) and selects no element.
C11_NoSharedTokenNoMatch ==
    (result.success # "none" /\ ~SharesToken) =>
        /\ result.success = "false"
        /\ result.suggestion
        /\ result.index = 0

\* A parameter the action requires is absent or empty.
MissingParameter(in) ==
    \/ /\ in.action \in {"click", "type", "typeFast", "clear", "waitForElement",
                          "scrollToElement", "scrollToElementTop",
                          "scrollToElementBottom", "focus", "blur"}
       /\ in.selector \in {Absent, <<"">>}
    \/ /\ in.action \in {"type", "typeFast"}
       /\ in.text \in {Absent, <<"">>}

\* C12: for an action that requires a selector called with an absent or empty
\* selector, and for type/typeFast called with absent or empty text, the actor
\* tool returns success false with an error and no executable flag, and the
\* guard invokes no Actor method for that output.
C12_MissingParameter ==
    (toolPc # "input" /\ MissingParameter(toolIn)) =>
        /\ ~toolOut.success
        /\ toolOut.error # ""
        /\ ~toolOut.executable
        /\ invoked = <<>>

\* A type action with a selector and an empty text went through the tool and
\* the dispatch loop.
C12_Witness ==
    /\ toolPc = "dispatched"
    /\ toolIn.action = "type"
    /\ toolIn.selector = <<"#a">>
    /\ toolIn.text = <<"">>
    /\ toolOut.error = "Text is required"
    /\ invoked = <<>>

\* C13: a click, type, clear, scrollToElement (or its top and bottom aliases),
\* focus or blur call made while the selector matches no element throws the
\* error naming the selector, dispatches no event and leaves the element's
\* value and the focus alone; the call does not retry: once it has thrown it
\* does nothing more.
C13_LocateFailure ==
    [][\A s \in Slots :
          /\ (op[s].pc = "free" /\ op'[s].pc # "free" /\ ~elPresent) =>
                 /\ op'[s].name \in {"click", "type", "clear", "scrollToElement",
                                     "scrollToElementTop",
                                     "scrollToElementBottom", "focus", "blur"}
                 /\ op'[s].pc = "threw"
                 /\ op'[s].error = "notFound"
                 /\ op'[s].emitted = <<>>
                 /\ elValue' = elValue
                 /\ focused' = focused
          /\ op[s].pc = "threw" => op'[s] = op[s]]_vars

\* The element was removed after a first call completed on it, and each of a
\* second call's kinds is seen failing to locate it.
C13_Witness ==
    /\ ~elPresent
    /\ op[1].pc = "done" /\ op[1].name = "type"
    /\ op[2].name = "focus" /\ op[2].pc = "threw" /\ op[2].error = "notFound"
    /\ elValue = op[1].final

\* C19: focus(selector) on an existing focusable element makes it the focused
\* element, and blur(selector) on the focused element removes the focus.
C19_NativeFocusBlur ==
    \A s \in Slots :
        /\ (op[s].name = "focus" /\ op[s].pc = "done" /\ Focusable(elKind))
               => op[s].focusedAfter
        /\ (op[s].name = "blur" /\ op[s].pc = "done") => ~op[s].focusedAfter

\* C14: collectAffordances(maxCount) returns at most maxCount affordances:
\* the first min(maxCount, n) of the n candidate elements, in document order.
C14_AtMostMax ==
    [][\A max \in MaxCounts :
          CollectAffordances(max) =>
              LET k == IF max < Len(doc) THEN max ELSE Len(doc)
              IN /\ Len(lastScan') = k
                 /\ \A i \in 1..k : lastScan'[i].node = doc[i]]_vars

\* C15: a failure while extracting one element's attributes does not abort
\* the scan: collectAffordances returns normally, and its result holds every
\* candidate element but the failing ones.
C15_ScanSurvivesElementFailure ==
    [][CollectAffordances(DefaultMax) =>
          /\ ~scanThrew'
          /\ {lastScan'[k].node : k \in 1..Len(lastScan')}
                 = {n \in Range(doc) : ~AccNameThrows(content[n])}]_vars

\* The intents searched: those of the hinted category, or all of them.
SearchedIntents ==
    {ck \in (1..Len(intentConfig)) \X (1..2) :
        /\ ck[2] <= Len(intentConfig[ck[1]].intents)
        /\ categoryHint \in {Absent, << <<>> >>}
               \/ intentConfig[ck[1]].name = categoryHint[1]}

\* The highest keyword score over the searched intents, 0 when none is searched.
BestScore ==
    LET scores == {IntentScore(ToLowerCase(userRequest),
                               intentConfig[ck[1]].intents[ck[2]]) :
                      ck \in SearchedIntents} \cup {0}
    IN CHOOSE x \in scores : \A y \in scores : x >= y

\* C16: the intent tool returns a structured result exactly when the highest
\* keyword score over the searched intents is at least 30, with confidence
\* high from 50 and medium from 30 to 49; otherwise it returns a
\* natural_language result.
C16_StructuredFromThirty ==
    intentOut.intentType # "none" =>
        /\ intentOut.success
        /\ intentOut.intentType = "structured" <=> BestScore >= 30
        /\ intentOut.intentType = "structured" =>
               intentOut.confidence =
                   (IF BestScore >= 50 THEN "high" ELSE "medium")
        /\ BestScore < 30 => intentOut.intentType = "natural_language"

\* A request whose best intent scores 20 went to the heuristic path.
C16_Witness ==
    /\ intentOut.intentType = "natural_language"
    /\ BestScore = 20

\* The required fields of the matched intent that got no value, in
\* configuration order.
MissingNames ==
    LET def == intentConfig[intentOut.cat].intents[intentOut.k]
    IN {def.fields[k].name : k \in {j \in 1..Len(def.fields) :
           def.fields[j].required /\ intentOut.fields[j].value = Absent}}

\* C17 as stated: a structured result is a success payload that carries
\* validation.missingFields, the required fields for which no value was
\* extracted.
C17_MissingFieldsCarried ==
    intentOut.intentType = "structured" =>
        /\ intentOut.success
        /\ intentOut.validation.missingFields # Absent
        /\ Range(intentOut.validation.missingFields[1]) = MissingNames

\* C17 as amended: missingFields lists exactly those fields when there is one,
\* and is undefined when there is none.
C17_MissingFields ==
    intentOut.intentType = "structured" =>
        /\ intentOut.success
        /\ MissingNames # {} =>
               /\ intentOut.validation.missingFields # Absent
               /\ Range(intentOut.validation.missingFields[1]) = MissingNames
               /\ Len(intentOut.validation.missingFields[1])
                      = Cardinality(MissingNames)
        /\ MissingNames = {} => intentOut.validation.missingFields = Absent

\* Two required fields, one with a value extracted and one without.
C17_Witness ==
    /\ intentOut.intentType = "structured"
    /\ Len(intentOut.fields) = 2
    /\ intentOut.fields[1].value = <<W.bob>>
    /\ intentOut.validation.missingFields = << <<W.email>> >>

\* C18: pending, executing and completed are mutually exclusive: no action
\* identity is in both the executing set and the completed set.
C18_ExecutingCompletedDisjoint == executingActions \cap completedActions = {}

\* The executable parts of the latest message, when it is the assistant's.
ExecutableParts ==
    IF messages = <<>> \/ messages[Len(messages)].role # "assistant" THEN {}
    ELSE {<<Len(messages), p>> : p \in {q \in 1..Len(messages[Len(messages)].parts) :
                                          messages[Len(messages)].parts[q] = "exec"}}

\* C20: an exception thrown by an Actor method is caught inside the guard: no
\* executeActorAction promise rejects, and a throw of one part leaves the
\* other executable parts of the message started, their calls in flight
\* untouched and able to return and be marked completed.
C20_NoRejection == rejected = {}

C20_OthersStarted ==
    \A id1, id2 \in ExecutableParts :
        (id1 # id2 /\ threw[id1] /\ ~dirty) => calls[id2] >= 1

C20_OthersCanReturn ==
    \A id \in ActionIds : ncalling[id] > 0 => ENABLED ActorReturns(id)

C20_OthersUntouched ==
    \A id1, id2 \in ActionIds :
        (id1 # id2 /\ ActorThrows(id1)) =>
            /\ ncalling'[id2] = ncalling[id2]
            /\ ndelay'[id2] = ndelay[id2]
            /\ (id2 \in completedActions => id2 \in completedActions')

C20_ThrowIsContained ==
    /\ [](C20_NoRejection /\ C20_OthersStarted /\ C20_OthersCanReturn)
    /\ [][C20_OthersUntouched]_vars

\* The first part of a message threw and the second, started with it, ran to
\* completion afterwards.
C20_Witness ==
    \E m \in 1..MaxMsgs :
        /\ threw[<<m, 1>>]
        /\ <<m, 2>> \in completedActions
        /\ <<m, 2>> \notin executingActions
        /\ calls[<<m, 2>>] = 1

\* C21: every action identity that enters the executing set is eventually
\* removed from it, whether its Actor call returns or throws (a waitForElement
\* that times out throws).
C21_EventuallyNotExecuting ==
    \A id \in ActionIds :
        (id \in executingActions) ~> (id \notin executingActions)

\* An action whose call threw and whose re-execution returned is out of the
\* executing set again.
C21_Witness ==
    \E id \in ActionIds :
        /\ threw[id]
        /\ calls[id] = MaxCalls
        /\ id \in completedActions
        /\ id \notin executingActions
        /\ updates = <<>>

\* C22: when the selector comes to match between the call and the timeout,
\* by an insertion or by any other mutation such as an attribute change, the
\* wait resolves instead of rejecting: the timer callback never rejects a
\* pending wait, with no observer callback outstanding, while the selector
\* matches an element.
C22_MatchResolves ==
    [][(TimerFires /\ promise = "pending") => ~matches]_vars

C24_TypeEvents ==
    \A s \in Slots :
        (op[s].name = "type" /\ op[s].pc = "done") =>
            LET n == Len(op[s].text)
                es == op[s].emitted
            IN /\ (elKind \in FormControls /\ op[s].sim) =>
                      /\ Len(es) = n + 1
                      /\ \A k \in 1..n :
                             es[k] = Event("input", SubSeq(op[s].text, 1, k))
                      /\ es[n + 1][1] = "change"
               /\ (elKind \in FormControls /\ ~op[s].sim) =>
                      EventTypes(es) = <<"input", "change">>
               /\ elKind = "contenteditable" =>
                      "change" \notin Range(EventTypes(es))

\* C25: two simulated type calls on the same element, the second issued while
\* the first waits between characters, interleave their writes: when both
\* have finished the element holds the second call's first character followed
\* by the characters the first call had still to write and the rest of the
\* second text; when the second call was issued before either text's length
\* had been written, that value is neither text.
C25_Interleaved ==
    \A s, t \in Slots :
        (/\ s < t
         /\ opsStarted = 2
         /\ op[s].name = "type" /\ op[s].sim /\ op[s].pc = "done"
         /\ op[t].name = "type" /\ op[t].sim /\ op[t].pc = "done"
         /\ op[s].disturbed)
            => LET written == Len(op[t].prior)
               IN /\ Len(elValue) =
                         Len(op[s].text) - written + Len(op[t].text)
                  /\ elValue[1] = op[t].text[1]
                  /\ (written < Len(op[s].text) /\ written < Len(op[t].text))
                         => elValue \notin {op[s].text, op[t].text}

\* Two overlapping simulated type calls have both finished.
C25_Witness ==
    /\ opsStarted = 2
    /\ elKind = "input"
    /\ op[1].name = "type" /\ op[1].sim /\ op[1].pc = "done"
    /\ op[2].name = "type" /\ op[2].sim /\ op[2].pc = "done"
    /\ op[1].disturbed
    /\ op[1].text = <<"a", "b">>
    /\ op[2].text = <<"a", "a">>
    /\ elValue \notin {op[1].text, op[2].text}

\* C26: a reported match is the affordance with the maximum score over all
\* the affordances, and the first in list order among those with that score.
C26_FirstMaximum ==
    result.success = "true" =>
        LET sc(k) == Score(intent, action, affordances[k])
        IN /\ result.index \in 1..Len(affordances)
           /\ result.matchScore = sc(result.index)
           /\ \A k \in 1..Len(affordances) : sc(k) <= sc(result.index)
           /\ \A k \in 1..(result.index - 1) : sc(k) < sc(result.index)

\* A match reported from a list whose two affordances score the same.
C26_Witness ==
    /\ result.success = "true"
    /\ Len(affordances) = 2
    /\ Score(intent, action, affordances[1]) = Score(intent, action, affordances[2])
    /\ affordances[1] # affordances[2]
    /\ result.index = 1

\* The request has none of the keywords of the click, type, clear and focus
\* branches, which come before the scroll branch.
NoEarlierKeyword(request) ==
    \A w \in {Kw.click, Kw.press, Kw.tap, Kw.type, Kw.enter, Kw.input, Kw.fill,
              Kw.clear, Kw.empty, Kw.delete, Kw.focus, Kw.select} :
        ~Includes(request, w)

\* C27: in the heuristic path a request that contains "scroll" and "top" (and
\* no keyword of an earlier branch) resolves to scrollToTop, and one that
\* contains "scroll" and "bottom" resolves to scrollToBottom, whatever stands
\* between "to" and "top" or "bottom".
C27_ScrollTopBottom ==
    LET request == Trim(ToLowerCase(userRequest))
    IN (/\ intentOut.intentType = "natural_language"
        /\ Includes(request, Kw.scroll)
        /\ NoEarlierKeyword(request))
           => /\ (Includes(request, Kw.top) /\ ~Includes(request, Kw.bottom))
                     => intentOut.action = "scrollToTop"
              /\ (Includes(request, Kw.bottom) /\ ~Includes(request, Kw.top))
                     => intentOut.action = "scrollToBottom"

\* C28: a natural_language result never has confidence "high".
C28_HeuristicNotHigh ==
    intentOut.intentType = "natural_language" => intentOut.confidence # "high"

\* C29: in the actorMethod path every parameter present in actorParams that
\* the Actor method declares is passed in the positional slot the method
\* declares for it.
C29_DeclaredSlots ==
    \A i \in 1..Len(invoked) :
        LET declared == DeclaredParams(invoked[i].method)
        IN \A k \in 1..Len(declared) :
               toolOut.actorParams[declared[k]] # Absent =>
                   /\ Len(invoked[i].args) >= k
                   /\ invoked[i].args[k] = toolOut.actorParams[declared[k]][1]

\* C30: for a structured match validation.valid is true exactly when no
\* required field is missing; an optional field for which the request holds
\* no value contributes no error.
C30_ValidIffNoRequiredMissing ==
    intentOut.intentType = "structured" =>
        (intentOut.validation.valid <=> MissingNames = {})

====
